---- MODULE Spec2Model ----
(***************************************************************************)
(* A model of awskillswitch (src/awskillswitch.go, the current handler at  *)
(* lines 162-427): the Lambda handler HandleRequest, its three handlers    *)
(* applySCP, manageRole and revokeSession / revokeSessionAllRoles, and the *)
(* IAM and Organizations state of the accounts they act on.  Every remote  *)
(* call is one step; the provider may fail any call.                       *)
(***************************************************************************)
EXTENDS Integers, Sequences, FiniteSets, TLC

(***************************************************************************)
(* Bounds of the model.                                                    *)
(***************************************************************************)
MaxRoles == 3
MaxPolicies == 2
MaxPages == 2
MaxInvocations == 2
MaxTime == 2
TicksPerSecond == 2

(***************************************************************************)
(* Action kinds and names.                                                 *)
(***************************************************************************)
ApplySCP == "apply_scp"
DeleteRole == "delete_role"
DetachPolicies == "detach_policies"
RevokeSessions == "revoke_sessions"

ALL == "ALL"
TargetAccount == "210987654321"
OtherAccount == "123456789012"
ManagementAccount == "998877665544"

RoleNames == <<"RoleA", "RoleB", "RoleC", "RoleD", "RoleE">>
Roles == {RoleNames[k] : k \in 1..MaxRoles}
RoleIndex(r) == CHOOSE k \in 1..Len(RoleNames) : RoleNames[k] = r

\* The requests a caller sends (type Request): any action, known or not, each
\* field present or empty.  The two omitempty fields are left out of a request
\* whose action does not read them: the role name of an apply_scp request, the
\* management account of a request with another known action (a request with an
\* unknown action names it only when it sets every field).  The role the caller
\* assumes is the first role of the account; the role it names is that one,
\* the second, or ALL (the second or none in a request with an unknown action
\* or without the account or the role to assume; a request without the account
\* or the role to assume sets another field only when its action is delete_role
\* or unknown).  An SCP is applied to either
\* of two accounts of the organization.
Requests ==
    {req \in [action : {ApplySCP, DeleteRole, DetachPolicies, RevokeSessions, "",
                        "stop_instances"},
              target_account_id : {"", TargetAccount, OtherAccount},
              role_to_assume : {"", RoleNames[1]},
              target_role_name : {"", ALL, RoleNames[1], RoleNames[2]},
              org_management_account : {"", ManagementAccount}] :
        /\ req.action = ApplySCP => req.target_role_name = ""
        /\ req.target_account_id = OtherAccount
              => /\ req.action = ApplySCP
                 /\ req.role_to_assume # ""
                 /\ req.org_management_account # ""
        /\ req.action \in {DeleteRole, DetachPolicies, RevokeSessions}
              => req.org_management_account = ""
        /\ (/\ req.action \in {ApplySCP, DetachPolicies, RevokeSessions}
            /\ (req.target_account_id = "" \/ req.role_to_assume = ""))
              => /\ req.target_role_name = ""
                 /\ req.org_management_account = ""
        /\ (req.action \in {"", "stop_instances"} /\ req.org_management_account # "")
              => /\ req.target_account_id # ""
                 /\ req.role_to_assume # ""
                 /\ req.target_role_name # ""
        /\ (\/ req.action \in {"", "stop_instances"}
            \/ req.target_account_id = ""
            \/ req.role_to_assume = "")
              => req.target_role_name \in {"", RoleNames[2]}}

NoRequest ==
    [action |-> "", target_account_id |-> "", role_to_assume |-> "",
     target_role_name |-> "", org_management_account |-> ""]

(***************************************************************************)
(* Policies.  A managed policy is known by its ARN, an inline policy by    *)
(* its name; both are records [kind, id] so that they can share a set.     *)
(***************************************************************************)
ManagedArn(k) == [kind |-> "managed", id |-> k]
InlineName(k) == [kind |-> "inline", id |-> k]
NoPolicy == [kind |-> "none", id |-> 0]

KindRank(kind) ==
    CASE kind = "managed" -> 1
      [] kind = "TokenInvalidationPolicy" -> 2
      [] kind = "inline" -> 3
      [] OTHER -> 4

PolicyBefore(p, q) ==
    \/ KindRank(p.kind) < KindRank(q.kind)
    \/ KindRank(p.kind) = KindRank(q.kind) /\ p.id < q.id

\* The provider lists a set of policies in one stable order.
RECURSIVE PolicyList(_)
PolicyList(S) ==
    IF S = {} THEN <<>>
    ELSE LET first == CHOOSE p \in S : \A q \in S \ {p} : PolicyBefore(p, q)
         IN <<first>> \o PolicyList(S \ {first})

\* The provider enumerates the roles of the account in one stable order.
RECURSIVE RoleList(_)
RoleList(S) ==
    IF S = {} THEN <<>>
    ELSE LET first == CHOOSE r \in S : \A q \in S \ {r} : RoleIndex(r) < RoleIndex(q)
         IN <<first>> \o RoleList(S \ {first})

Range(s) == {s[k] : k \in 1..Len(s)}

VARIABLES
    roles,          \* IAM roles that exist in the target account
    attached,       \* role -> managed policies attached to it
    inline,         \* role -> inline policies embedded in it
    policies,       \* customer managed policies of the target account
    orgPolicies,    \* the organization's SCPs: [id, name, content]
    orgAttached,    \* <<policy id, account>> attachments of SCPs
    now,            \* the clock, in ticks
    invocations,    \* number of invocations started
    before,         \* the accounts as they were when the handler was called, and
                    \* whether the call repeats a DetachPolicies that succeeded
    request,        \* the request of the current invocation
    calledAt,       \* the instant HandleRequest was called
    pc,             \* position of the current invocation
    config,         \* what loadConfig returned: [status, scpPolicy]
    calls,          \* remote calls of the current invocation, in order
    listPoliciesOutput,
    listInlinePoliciesOutput,
    idx,            \* position of the range loop in progress
    createPolicyOutput,
    page,           \* roles of the list-roles page being processed
    lastPage,
    marker,         \* number of roles delivered by earlier pages
    pageNo,
    policyName,     \* time stamp embedded in the name of the policy
    result,         \* the strings.Builder of revokeSessionAllRoles
    ret             \* what the handler returned

world == <<roles, attached, inline, policies, orgPolicies, orgAttached>>
locals == <<listPoliciesOutput, listInlinePoliciesOutput, idx, policyName,
            createPolicyOutput, page, lastPage, marker, pageNo, result>>
vars == <<world, now, invocations, before, request, calledAt, pc, config, calls, locals, ret>>

\* switch.conf as it may be found: one of two SCP documents under
\* switchPolicies.scpPolicy, or a file that cannot be read or parsed.
ScpDocuments == {"DenyAllButLogging", "DenyAll"}
SwitchConf == ScpDocuments \cup {"unreadable"}
NoConfig == [status |-> "unloaded", scpPolicy |-> ""]

loadConfig(file) ==
    IF file \in ScpDocuments
    THEN [status |-> "loaded", scpPolicy |-> file]
    ELSE [status |-> "error", scpPolicy |-> ""]

NoReturn == [err |-> "", val |-> <<>>]
Failure(e) == [err |-> e, val |-> <<>>]
Success(lines) == [err |-> "", val |-> lines]
Line(msg, role) == [msg |-> msg, role |-> role]

\* The account before the first invocation: the roles differ in the number of
\* managed and inline policies they carry.
InitialManaged(r) == IF RoleIndex(r) = 1 THEN 0 ELSE MaxPolicies
InitialInline(r) == MaxPolicies - 1

Init ==
    /\ roles = Roles
    /\ attached = [r \in Roles |-> {ManagedArn(k) : k \in 1..InitialManaged(r)}]
    /\ inline = [r \in Roles |-> {InlineName(k) : k \in 1..InitialInline(r)}]
    /\ policies = {}
    /\ orgPolicies = {}
    /\ orgAttached = {}
    /\ now = 0
    /\ invocations = 0
    /\ before = [roles |-> roles, attached |-> attached, inline |-> inline,
                 policies |-> policies, orgPolicies |-> orgPolicies,
                 orgAttached |-> orgAttached, repeated |-> FALSE]
    /\ request = NoRequest
    /\ calledAt = 0
    /\ pc = "idle"
    /\ config = NoConfig
    /\ calls = <<>>
    /\ listPoliciesOutput = <<>>
    /\ listInlinePoliciesOutput = <<>>
    /\ idx = 0
    /\ policyName = 0
    /\ createPolicyOutput = NoPolicy
    /\ page = <<>>
    /\ lastPage = FALSE
    /\ marker = 0
    /\ pageNo = 0
    /\ result = <<>>
    /\ ret = NoReturn

(***************************************************************************)
(* Remote calls.  Each call is logged with the role whose credentials it   *)
(* was made with.  The credentials are obtained lazily, on the first call  *)
(* of the client, so a role that cannot be assumed fails every call.       *)
(***************************************************************************)
Call(op, creds, role, policy, ok, truncated) ==
    [op |-> op, creds |-> creds, role |-> role, policy |-> policy,
     ok |-> ok, truncated |-> truncated]

\* fmt.Sprintf("arn:aws:iam::%s:role/%s", account, roleToAssume)
RoleArn(account, roleToAssume) == [account |-> account, role |-> roleToAssume]

\* applySCPCreds with the role assumed in the target account.
applySCPCredsOfTarget ==
    RoleArn(request.target_account_id, request.role_to_assume)

\* The role each handler assumes for its client.
applySCPCreds ==
    RoleArn(request.org_management_account, request.role_to_assume)

manageRoleCreds ==
    RoleArn(request.target_account_id, request.role_to_assume)

revokeSessionCreds ==
    RoleArn(request.target_account_id, request.role_to_assume)

\* The credentials the handler of the current request made its client with.
Creds ==
    IF request.action = RevokeSessions THEN revokeSessionCreds ELSE manageRoleCreds

\* stscreds.NewCredentials for arn:aws:iam::<targetAccountID>:role/<roleToAssume>
Assumable == request.role_to_assume \in roles

Log(op, role, policy, ok, truncated) ==
    calls' = Append(calls, Call(op, Creds, role, policy, ok, truncated))

Return(r) ==
    /\ pc' = "done"
    /\ ret' = r

(***************************************************************************)
(* The clock.  The handler reads it in revokeSession only (time.Now, twice) *)
(* so time is let pass before a call of the handler and around those reads. *)
(***************************************************************************)
Tick ==
    /\ pc \in {"revokeSession", "CreatePolicy"}
    /\ now < MaxTime
    /\ now' = now + 1
    /\ UNCHANGED <<world, invocations, before, request, calledAt, pc, config, calls, locals, ret>>

(***************************************************************************)
(* HandleRequest: validation and dispatch.                                 *)
(***************************************************************************)
\* ValidationError without the check of the two fields every action needs.
ValidationErrorAccountUnchecked(req) ==
    CASE req.action = ApplySCP ->
           IF req.org_management_account = ""
           THEN "managementAccount is required for apply_scp action" ELSE ""
      [] req.action \in {DetachPolicies, DeleteRole, RevokeSessions} ->
           IF req.target_role_name = ""
           THEN "targetRoleName is required for this action" ELSE ""
      [] OTHER -> ""

\* ValidationError without the check of target_role_name for revoke_sessions.
ValidationErrorRevokeUnchecked(req) ==
    IF req.target_account_id = "" \/ req.role_to_assume = ""
    THEN "targetAccountID and roleToAssume are required"
    ELSE CASE req.action = ApplySCP ->
                IF req.org_management_account = ""
                THEN "managementAccount is required for apply_scp action" ELSE ""
           [] req.action \in {DetachPolicies, DeleteRole} ->
                IF req.target_role_name = ""
                THEN "targetRoleName is required for this action" ELSE ""
           [] OTHER -> ""

\* ValidationError without the check of org_management_account for apply_scp.
ValidationErrorOrgUnchecked(req) ==
    IF req.target_account_id = "" \/ req.role_to_assume = ""
    THEN "targetAccountID and roleToAssume are required"
    ELSE CASE req.action \in {DetachPolicies, DeleteRole, RevokeSessions} ->
                IF req.target_role_name = ""
                THEN "targetRoleName is required for this action" ELSE ""
           [] OTHER -> ""

\* The error of the first required-field check the request fails, "" if none.
ValidationError(req) ==
    IF req.target_account_id = "" \/ req.role_to_assume = ""
    THEN "targetAccountID and roleToAssume are required"
    ELSE CASE req.action = ApplySCP ->
                IF req.org_management_account = ""
                THEN "managementAccount is required for apply_scp action" ELSE ""
           [] req.action \in {DetachPolicies, DeleteRole} ->
                IF req.target_role_name = ""
                THEN "targetRoleName is required for this action" ELSE ""
           [] req.action = RevokeSessions ->
                IF req.target_role_name = ""
                THEN "targetRoleName is required for this action" ELSE ""
           [] OTHER -> ""

\* Dispatch with revoke_sessions in the case of the sanitizer.
DispatchRevokeToManageRole(req) ==
    CASE req.action = ApplySCP -> "org.CreatePolicy"
      [] req.action \in {DetachPolicies, DeleteRole, RevokeSessions} ->
           "ListAttachedRolePolicies"
      [] OTHER -> "invalid action"

\* Dispatch with a default arm that runs manageRole.
DispatchDefaultManageRole(req) ==
    CASE req.action = ApplySCP -> "org.CreatePolicy"
      [] req.action = RevokeSessions -> "revokeSession"
      [] OTHER -> "ListAttachedRolePolicies"

\* The first step of the handler the switch dispatches to.
Dispatch(req) ==
    CASE req.action = ApplySCP -> "org.CreatePolicy"
      [] req.action \in {DetachPolicies, DeleteRole} -> "ListAttachedRolePolicies"
      [] req.action = RevokeSessions -> "revokeSession"
      [] OTHER -> "invalid action"

HandleRequest(req) ==
    /\ pc \in {"idle", "done"}
    /\ invocations < MaxInvocations
    /\ invocations' = invocations + 1
    /\ before' = [roles |-> roles, attached |-> attached, inline |-> inline,
                  policies |-> policies, orgPolicies |-> orgPolicies,
                  orgAttached |-> orgAttached,
                  repeated |-> /\ pc = "done"
                               /\ request.action = DetachPolicies
                               /\ ret.err = ""
                               /\ req = request]
    /\ request' = req
    /\ \E t \in now..MaxTime :
         /\ req.action # RevokeSessions => t = now
         /\ now' = t
         /\ calledAt' = t
    /\ calls' = <<>>
    /\ listPoliciesOutput' = <<>>
    /\ listInlinePoliciesOutput' = <<>>
    /\ idx' = 0
    /\ policyName' = 0
    /\ createPolicyOutput' = NoPolicy
    /\ page' = <<>>
    /\ lastPage' = FALSE
    /\ marker' = 0
    /\ pageNo' = 0
    /\ result' = <<>>
    /\ IF ValidationError(req) # ""
       THEN /\ Return(Failure(ValidationError(req)))
            /\ config' = NoConfig
       ELSE IF Dispatch(req) = "invalid action"
       THEN /\ Return(Failure("invalid action"))
            /\ config' = NoConfig
       ELSE IF req.action = ApplySCP
       THEN \E file \in SwitchConf :
               /\ config' = loadConfig(file)
               /\ IF loadConfig(file).status = "loaded"
                  THEN /\ pc' = Dispatch(req)
                       /\ ret' = NoReturn
                  ELSE Return(Failure("error loading config file"))
       ELSE /\ config' = NoConfig
            /\ pc' = Dispatch(req)
            /\ ret' = NoReturn
    /\ UNCHANGED world

(***************************************************************************)
(* manageRole: the role sanitizer, and the deletion of the role.           *)
(***************************************************************************)
\* Where manageRole goes once the range loop over the managed policies ends.
AfterDetachLoop == "ListRolePolicies"

\* DetachLoop that leaves the loop after its first iteration.
DetachLoopOnce(i, n) ==
    IF i = 1 /\ n >= 1 THEN "DetachRolePolicy" ELSE AfterDetachLoop

\* for _, policy := range listPoliciesOutput.AttachedPolicies: the step at
\* position i of a list of n entries.
DetachLoop(i, n) ==
    IF i <= n THEN "DetachRolePolicy" ELSE AfterDetachLoop

\* AfterDeleteLoop that never goes on to the deletion of the role.
AfterDeleteLoopNever(action) == "return"

\* AfterDeleteLoop with its test made on the other action of the sanitizer.
AfterDeleteLoopOnDetach(action) ==
    IF action = DetachPolicies THEN "DeleteRole" ELSE "return"

\* AfterDeleteLoop without its test of the action: the role is always deleted.
AfterDeleteLoopAlways(action) == "DeleteRole"

\* Where manageRole goes once the range loop over the inline policies ends:
\* the test action == DeleteRole.
AfterDeleteLoop(action) ==
    IF action = DeleteRole THEN "DeleteRole" ELSE "return"

\* ErrCheck with the error dropped: the handler goes on after a failed call.
ErrCheckIgnored(ok, next) == next

\* err != nil after a call of the sanitizer: return the error at once.
ErrCheck(ok, next) == IF ok THEN next ELSE "fail"

\* The provider returns the first k >= 1 entries of a listing, and marks the
\* answer truncated (IsTruncated) when more exist.  manageRole reads the
\* entries only.
svcListAttachedRolePolicies ==
    /\ pc = "ListAttachedRolePolicies"
    /\ \E fault \in BOOLEAN :
         LET role == request.target_role_name
             ok == ~fault /\ Assumable /\ role \in roles
             full == IF role \in roles THEN PolicyList(attached[role]) ELSE <<>>
         IN \E k \in 0..Len(full) :
              LET out == IF ok THEN SubSeq(full, 1, k) ELSE <<>>
                  next == ErrCheck(ok, DetachLoop(1, Len(out)))
              IN /\ (~ok => k = 0)
                 /\ (ok /\ k = 0 => full = <<>>)
                 /\ Log("ListAttachedRolePolicies", role, NoPolicy, ok, ok /\ k < Len(full))
                 /\ listPoliciesOutput' = out
                 /\ idx' = 1
                 /\ IF next = "fail"
                    THEN Return(Failure("error listing attached policies"))
                    ELSE pc' = next /\ ret' = ret
    /\ UNCHANGED <<world, now, invocations, before, request, calledAt, config,
                   listInlinePoliciesOutput, policyName, createPolicyOutput, page,
                   lastPage, marker, pageNo, result>>

svcDetachRolePolicy ==
    /\ pc = "DetachRolePolicy"
    /\ \E fault \in BOOLEAN :
         LET role == request.target_role_name
             policy == listPoliciesOutput[idx]
             ok == ~fault /\ Assumable /\ role \in roles /\ policy \in attached[role]
             next == ErrCheck(ok, DetachLoop(idx + 1, Len(listPoliciesOutput)))
         IN /\ Log("DetachRolePolicy", role, policy, ok, FALSE)
            /\ attached' = IF ok THEN [attached EXCEPT ![role] = @ \ {policy}] ELSE attached
            /\ IF next = "fail"
               THEN /\ Return(Failure("error detaching policy"))
                    /\ idx' = idx
               ELSE /\ pc' = next
                    /\ ret' = ret
                    /\ idx' = idx + 1
    /\ UNCHANGED <<roles, inline, policies, orgPolicies, orgAttached, now, invocations, before,
                   request, calledAt, config, listPoliciesOutput, listInlinePoliciesOutput,
                   policyName, createPolicyOutput, page, lastPage, marker, pageNo, result>>

\* The outcome of manageRole once its last loop has ended without a call left.
manageRoleReturn(action) ==
    IF action = DeleteRole
    THEN Success(<<Line("Role and its policies are detached and deleted", request.target_role_name)>>)
    ELSE Success(<<Line("Policies detached from role", request.target_role_name)>>)

svcListRolePolicies ==
    /\ pc = "ListRolePolicies"
    /\ \E fault \in BOOLEAN :
         LET role == request.target_role_name
             ok == ~fault /\ Assumable /\ role \in roles
             full == IF role \in roles THEN PolicyList(inline[role]) ELSE <<>>
         IN \E k \in 0..Len(full) :
              LET out == IF ok THEN SubSeq(full, 1, k) ELSE <<>>
                  next == ErrCheck(ok, IF Len(out) = 0 THEN AfterDeleteLoop(request.action)
                                                       ELSE "DeleteRolePolicy")
              IN /\ (~ok => k = 0)
                 /\ (ok /\ k = 0 => full = <<>>)
                 /\ Log("ListRolePolicies", role, NoPolicy, ok, ok /\ k < Len(full))
                 /\ listInlinePoliciesOutput' = out
                 /\ idx' = 1
                 /\ CASE next = "fail" -> Return(Failure("error listing inline policies"))
                      [] next = "return" -> Return(manageRoleReturn(request.action))
                      [] OTHER -> pc' = next /\ ret' = ret
    /\ UNCHANGED <<world, now, invocations, before, request, calledAt, config,
                   listPoliciesOutput, policyName, createPolicyOutput, page,
                   lastPage, marker, pageNo, result>>

svcDeleteRolePolicy ==
    /\ pc = "DeleteRolePolicy"
    /\ \E fault \in BOOLEAN :
         LET role == request.target_role_name
             policy == listInlinePoliciesOutput[idx]
             ok == ~fault /\ Assumable /\ role \in roles /\ policy \in inline[role]
             next == ErrCheck(ok, IF idx = Len(listInlinePoliciesOutput)
                                  THEN AfterDeleteLoop(request.action)
                                  ELSE "DeleteRolePolicy")
         IN /\ Log("DeleteRolePolicy", role, policy, ok, FALSE)
            /\ inline' = IF ok THEN [inline EXCEPT ![role] = @ \ {policy}] ELSE inline
            /\ CASE next = "fail" ->
                      /\ Return(Failure("error deleting inline policy"))
                      /\ idx' = idx
                 [] next = "return" ->
                      /\ Return(manageRoleReturn(request.action))
                      /\ idx' = idx + 1
                 [] OTHER ->
                      /\ pc' = next
                      /\ ret' = ret
                      /\ idx' = idx + 1
    /\ UNCHANGED <<roles, attached, policies, orgPolicies, orgAttached, now, invocations, before,
                   request, calledAt, config, listPoliciesOutput, listInlinePoliciesOutput,
                   policyName, createPolicyOutput, page, lastPage, marker, pageNo, result>>

\* The provider refuses to delete a role that still has policies.
svcDeleteRole ==
    /\ pc = "DeleteRole"
    /\ \E fault \in BOOLEAN :
         LET role == request.target_role_name
             ok == /\ ~fault /\ Assumable /\ role \in roles
                   /\ attached[role] = {} /\ inline[role] = {}
         IN /\ Log("DeleteRole", role, NoPolicy, ok, FALSE)
            /\ roles' = IF ok THEN roles \ {role} ELSE roles
            /\ IF ok
               THEN Return(manageRoleReturn(request.action))
               ELSE Return(Failure("error deleting role"))
    /\ UNCHANGED <<attached, inline, policies, orgPolicies, orgAttached, now, invocations, before,
                   request, calledAt, config, locals>>

manageRole ==
    \/ svcListAttachedRolePolicies
    \/ svcDetachRolePolicy
    \/ svcListRolePolicies
    \/ svcDeleteRolePolicy
    \/ svcDeleteRole

(***************************************************************************)
(* revokeSession: the deny policy, and its attachment to one role.         *)
(***************************************************************************)
\* time.Now().Format("20060102-150405") and time.Now().Format(time.RFC3339):
\* both layouts keep the seconds and drop the fraction of the second.
FormatStamp(t) == t \div TicksPerSecond
FormatRFC3339(t) == t \div TicksPerSecond
\* The instant a formatted time denotes, as the provider parses it.
ParseRFC3339(stamp) == stamp * TicksPerSecond

\* The ARN the provider gives the policy created under a name.
PolicyArn(name) == [kind |-> "TokenInvalidationPolicy", id |-> name]
PolicyArns == {PolicyArn(p.name) : p \in policies}

\* "Condition": {"DateLessThan": {"aws:TokenIssueTime": cutoff}}
Denies(policy, issueTime) == issueTime < ParseRFC3339(policy.cutoff)

\* policyName := fmt.Sprintf("TokenInvalidationPolicy-%s", time.Now().Format(...))
revokeSessionPolicyName ==
    /\ pc = "revokeSession"
    /\ policyName' = FormatStamp(now)
    /\ pc' = "CreatePolicy"
    /\ UNCHANGED <<world, now, invocations, before, request, calledAt, config, calls,
                   listPoliciesOutput, listInlinePoliciesOutput, idx, createPolicyOutput,
                   page, lastPage, marker, pageNo, result, ret>>

\* AfterCreatePolicy that leaves out the role the handler assumed.
AfterCreatePolicySkipAssumed(targetRoleName) ==
    IF targetRoleName = ALL THEN "ListRolesPages"
    ELSE IF targetRoleName = request.role_to_assume THEN "done"
    ELSE "AttachRolePolicy"

\* The branch on targetRoleName after the policy is created.
AfterCreatePolicy(targetRoleName) ==
    IF targetRoleName = ALL THEN "ListRolesPages" ELSE "AttachRolePolicy"

\* The policy document is formatted from a second reading of the clock, and
\* the policy is created.  The provider rejects a name that is taken.
svcCreatePolicy ==
    /\ pc = "CreatePolicy"
    /\ \E fault \in BOOLEAN :
         LET ok == /\ ~fault /\ Assumable
                   /\ \A p \in policies : p.name # policyName
             next == ErrCheck(ok, AfterCreatePolicy(request.target_role_name))
         IN /\ Log("CreatePolicy", "", PolicyArn(policyName), ok, FALSE)
            /\ policies' = IF ok
                           THEN policies \cup {[name |-> policyName,
                                                cutoff |-> FormatRFC3339(now)]}
                           ELSE policies
            /\ createPolicyOutput' = IF ok THEN PolicyArn(policyName) ELSE NoPolicy
            /\ IF next = "fail"
               THEN Return(Failure("error creating new policy"))
               ELSE pc' = next /\ ret' = ret
    /\ UNCHANGED <<roles, attached, inline, orgPolicies, orgAttached, now, invocations, before,
                   request, calledAt, config, listPoliciesOutput, listInlinePoliciesOutput,
                   idx, policyName, page, lastPage, marker, pageNo, result>>

\* AttachInput that attaches a deny policy the account already had, if any.
AttachInputReused(targetRoleName, arn) ==
    [role |-> targetRoleName,
     policy |-> IF before.policies = {} THEN arn
                ELSE PolicyArn((CHOOSE p \in before.policies : TRUE).name)]

\* AttachInput with the two role parameters mixed up.
AttachInputAssumed(targetRoleName, arn) == [role |-> request.role_to_assume, policy |-> arn]

\* The role and the policy of the attach call of the single-target branch.
AttachInput(targetRoleName, arn) == [role |-> targetRoleName, policy |-> arn]

svcAttachRolePolicy ==
    /\ pc = "AttachRolePolicy"
    /\ \E fault \in BOOLEAN :
         LET input == AttachInput(request.target_role_name, createPolicyOutput)
             ok == /\ ~fault /\ Assumable
                   /\ input.role \in roles /\ input.policy \in PolicyArns
         IN /\ Log("AttachRolePolicy", input.role, input.policy, ok, FALSE)
            /\ attached' = IF ok THEN [attached EXCEPT ![input.role] = @ \cup {input.policy}]
                           ELSE attached
            /\ IF ok
               THEN Return(Success(<<Line("New token recovation policy attached to role",
                                          request.target_role_name)>>))
               ELSE Return(Failure("error attaching new policy to role"))
    /\ UNCHANGED <<roles, inline, policies, orgPolicies, orgAttached, now, invocations, before,
                   request, calledAt, config, locals>>

(***************************************************************************)
(* revokeSessionAllRoles: the pages of ListRolesPages and, for every role  *)
(* of a page, the callback's attach.                                       *)
(***************************************************************************)
\* Skipped without the comparison: no role is left out.
SkippedNever(roleName, assumedRoleName) == FALSE

\* if *role.RoleName == assumedRoleName { continue }
Skipped(roleName, assumedRoleName) == roleName = assumedRoleName

\* The first position from i on of a page whose role the callback attaches to.
RECURSIVE NextRole(_, _, _)
NextRole(pg, i, assumedRoleName) ==
    IF i > Len(pg) THEN i
    ELSE IF Skipped(pg[i], assumedRoleName) THEN NextRole(pg, i + 1, assumedRoleName)
    ELSE i

\* Continue returning false: the paginator stops after the first page.
ContinueNever(last) == FALSE

\* return !lastPage: whether the paginator is to fetch another page.
Continue(last) == ~last

\* AfterRole with a paginator that, past the page marked last, waits for a
\* page that never comes instead of returning.
AfterRoleWaits(pg, i, last) ==
    IF i <= Len(pg) THEN "AttachRolePolicyAll"
    ELSE IF Continue(last) THEN "ListRolesPages"
    ELSE "ListRolesPagesWait"

\* Where the handler goes once the callback has left position i of the page.
AfterRole(pg, i, last) ==
    IF i <= Len(pg) THEN "AttachRolePolicyAll"
    ELSE IF Continue(last) THEN "ListRolesPages"
    ELSE "return"

\* AfterAttach returning the error of a failed attach instead of continuing.
AfterAttachAbort(ok, next) == IF ok THEN next ELSE "fail"

\* AllRolesReturn handing the lines written so far back with the error.
AllRolesReturnPartial(ok, res) ==
    IF ok THEN Success(res) ELSE [err |-> "error attaching policy to roles", val |-> res]

\* AllRolesReturn with the paginator's error swallowed.
AllRolesReturnSwallowed(ok, res) == Success(res)

\* if err != nil { fmt.Printf(...); continue }: a failed attach is logged and the
\* loop goes on with the role that follows.
AfterAttach(ok, next) == next

\* What revokeSessionAllRoles returns once ListRolesPages has returned.
AllRolesReturn(ok, res) ==
    IF ok THEN Success(res) ELSE Failure("error attaching policy to roles")

\* The provider delivers the roles not yet delivered, k >= 1 of them per page,
\* and marks as last the page that delivers the rest; it delivers at most
\* MaxPages pages.
svcListRolesPages ==
    /\ pc = "ListRolesPages"
    /\ \E fault \in BOOLEAN :
         LET ok == ~fault /\ Assumable
             full == RoleList(roles)
             rest == SubSeq(full, marker + 1, Len(full))
         IN \E k \in 0..Len(rest) :
              LET pg == SubSeq(rest, 1, k)
                  last == k = Len(rest)
                  first == NextRole(pg, 1, request.role_to_assume)
                  next == ErrCheck(ok, AfterRole(pg, first, last))
              IN /\ ok => /\ k = 0 => rest = <<>>
                          /\ pageNo + 1 = MaxPages => last
                 /\ ~ok => k = 0
                 /\ Log("ListRoles", "", NoPolicy, ok, ok /\ ~last)
                 /\ page' = pg
                 /\ lastPage' = last
                 /\ marker' = marker + k
                 /\ pageNo' = pageNo + 1
                 /\ idx' = first
                 /\ CASE next = "fail" -> Return(AllRolesReturn(FALSE, result))
                      [] next = "return" -> Return(AllRolesReturn(TRUE, result))
                      [] OTHER -> pc' = next /\ ret' = ret
    /\ UNCHANGED <<world, now, invocations, before, request, calledAt, config,
                   listPoliciesOutput, listInlinePoliciesOutput, policyName,
                   createPolicyOutput, result>>

\* WriteString writing a line whatever the outcome of the attach.
WriteStringAlways(res, ok, roleName) == Append(res, Line("Policy attached to role", roleName))

\* The callback's handling of the outcome of an attach: a line for a success,
\* nothing but a log message for a failure.
WriteString(res, ok, roleName) ==
    IF ok THEN Append(res, Line("Policy attached to role", roleName)) ELSE res

svcAttachRolePolicyAll ==
    /\ pc = "AttachRolePolicyAll"
    /\ \E fault \in BOOLEAN :
         LET role == page[idx]
             ok == /\ ~fault /\ Assumable
                   /\ role \in roles /\ createPolicyOutput \in PolicyArns
             following == NextRole(page, idx + 1, request.role_to_assume)
             next == AfterAttach(ok, AfterRole(page, following, lastPage))
         IN /\ Log("AttachRolePolicy", role, createPolicyOutput, ok, FALSE)
            /\ attached' = IF ok THEN [attached EXCEPT ![role] = @ \cup {createPolicyOutput}]
                           ELSE attached
            /\ result' = WriteString(result, ok, role)
            /\ idx' = following
            /\ CASE next = "fail" -> Return(AllRolesReturn(FALSE, result'))
                 [] next = "return" -> Return(AllRolesReturn(TRUE, result'))
                 [] OTHER -> pc' = next /\ ret' = ret
    /\ UNCHANGED <<roles, inline, policies, orgPolicies, orgAttached, now, invocations, before,
                   request, calledAt, config, listPoliciesOutput, listInlinePoliciesOutput,
                   policyName, createPolicyOutput, page, lastPage, marker, pageNo>>

revokeSession ==
    \/ revokeSessionPolicyName
    \/ svcCreatePolicy
    \/ svcAttachRolePolicy

revokeSessionAllRoles ==
    \/ svcListRolesPages
    \/ svcAttachRolePolicyAll

(***************************************************************************)
(* applySCP: the SCP is created in the organization and attached to the    *)
(* target account, with the credentials of the management account.         *)
(***************************************************************************)
ScpId(k) == [kind |-> "HighlyRestrictiveSCP", id |-> k]

LogOrg(op, target, policy, ok) ==
    calls' = Append(calls, Call(op, applySCPCreds, target, policy, ok, FALSE))

\* CreatePolicyInput with a name of its own for every invocation.
CreatePolicyInputRenamed(cfg) ==
    [Content |-> cfg.scpPolicy,
     Name |-> IF invocations = 1 THEN "HighlyRestrictiveSCP" ELSE "HighlyRestrictiveSCP-2",
     Type |-> "SERVICE_CONTROL_POLICY"]

\* CreatePolicyInput with a document written in the code, not the configured one.
CreatePolicyInputFixed(cfg) ==
    [Content |-> "DenyAll", Name |-> "HighlyRestrictiveSCP",
     Type |-> "SERVICE_CONTROL_POLICY"]

\* scpPolicy := string(config.SwitchPolicies.SCPolicy), the bytes unchanged.
CreatePolicyInput(cfg) ==
    [Content |-> cfg.scpPolicy, Name |-> "HighlyRestrictiveSCP",
     Type |-> "SERVICE_CONTROL_POLICY"]

\* The provider rejects a second policy of the same name.
orgCreatePolicy ==
    /\ pc = "org.CreatePolicy"
    /\ \E fault \in BOOLEAN :
         LET input == CreatePolicyInput(config)
             ok == ~fault /\ \A p \in orgPolicies : p.name # input.Name
             id == ScpId(Cardinality(orgPolicies) + 1)
             next == ErrCheck(ok, "org.AttachPolicy")
         IN /\ LogOrg("org.CreatePolicy", "", IF ok THEN id ELSE NoPolicy, ok)
            /\ orgPolicies' = IF ok
                              THEN orgPolicies \cup {[id |-> id, name |-> input.Name,
                                                      content |-> input.Content]}
                              ELSE orgPolicies
            /\ createPolicyOutput' = IF ok THEN id ELSE NoPolicy
            /\ IF next = "fail"
               THEN Return(Failure("error creating SCP"))
               ELSE pc' = next /\ ret' = ret
    /\ UNCHANGED <<roles, attached, inline, policies, orgAttached, now, invocations, before,
                   request, calledAt, config, listPoliciesOutput, listInlinePoliciesOutput,
                   idx, policyName, page, lastPage, marker, pageNo, result>>

AttachPolicyInput(policyResp, targetAccountID) ==
    [PolicyId |-> policyResp, TargetId |-> targetAccountID]

applySCPReturn(targetAccountID, policyId) ==
    Success(<<[msg |-> "SCP applied to account", account |-> targetAccountID,
               policy |-> policyId]>>)

orgAttachPolicy ==
    /\ pc = "org.AttachPolicy"
    /\ \E fault \in BOOLEAN :
         LET input == AttachPolicyInput(createPolicyOutput, request.target_account_id)
             ok == ~fault /\ \E p \in orgPolicies : p.id = input.PolicyId
             next == ErrCheck(ok, "return")
         IN /\ LogOrg("org.AttachPolicy", input.TargetId, input.PolicyId, ok)
            /\ orgAttached' = IF ok
                              THEN orgAttached \cup {<<input.PolicyId, input.TargetId>>}
                              ELSE orgAttached
            /\ IF next = "fail"
               THEN Return(Failure("error attaching SCP to account"))
               ELSE Return(applySCPReturn(request.target_account_id, createPolicyOutput))
    /\ UNCHANGED <<roles, attached, inline, policies, orgPolicies, now, invocations, before,
                   request, calledAt, config, locals>>

applySCP ==
    \/ orgCreatePolicy
    \/ orgAttachPolicy

Next ==
    \/ \E req \in Requests : HandleRequest(req)
    \/ applySCP
    \/ manageRole
    \/ revokeSession
    \/ revokeSessionAllRoles
    \/ Tick

Spec == Init /\ [][Next]_vars

\* The Lambda runtime runs an invocation to its return: every remote call
\* comes back, with a result or an error, and the handler takes its next step.
\* When requests arrive and how the clock advances is left to the environment.
Step == applySCP \/ manageRole \/ revokeSession \/ revokeSessionAllRoles
FairSpec == Spec /\ WF_vars(Step)


(***************************************************************************)
(* Properties.                                                             *)
(***************************************************************************)
CallsOf(op) == {i \in DOMAIN calls : calls[i].op = op}
SanitizerOps ==
    {"ListAttachedRolePolicies", "DetachRolePolicy", "ListRolePolicies", "DeleteRolePolicy"}
IsSanitizer == request.action \in {DetachPolicies, DeleteRole}
IsRevoke == request.action = RevokeSessions /\ ValidationError(request) = ""
IsBulk == IsRevoke /\ request.target_role_name = ALL
AllOk == \A i \in DOMAIN calls : calls[i].ok
AttachCalls == CallsOf("AttachRolePolicy")
Attempted == {calls[i].role : i \in AttachCalls}
OtherRoles == before.roles \ {request.role_to_assume}
\* The bulk path has ended and create-policy and every list-roles page succeeded.
ListingComplete ==
    /\ pc = "done"
    /\ CallsOf("CreatePolicy") # {}
    /\ CallsOf("ListRoles") # {}
    /\ \A i \in CallsOf("CreatePolicy") \cup CallsOf("ListRoles") : calls[i].ok

\* C1: a delete-role call is issued only by a DeleteRole invocation, at most
\* once, as the last call, after the list-attached call, a detach call for every
\* listed managed policy, the list-inline call and a delete-inline call for
\* every listed inline policy, all of which succeeded; once one of those calls
\* has failed, the invocation issues no delete-role call.
C1_DeleteRoleAfterSanitizer ==
    /\ \A i \in CallsOf("DeleteRole") :
          /\ request.action = DeleteRole
          /\ CallsOf("DeleteRole") = {i}
          /\ i = Len(calls)
          /\ \A j \in 1..(i - 1) : calls[j].ok /\ calls[j].op \in SanitizerOps
          /\ CallsOf("ListAttachedRolePolicies") # {}
          /\ CallsOf("ListRolePolicies") # {}
          /\ {calls[j].policy : j \in CallsOf("DetachRolePolicy")} = Range(listPoliciesOutput)
          /\ {calls[j].policy : j \in CallsOf("DeleteRolePolicy")}
                = Range(listInlinePoliciesOutput)
    /\ (\E j \in DOMAIN calls : ~calls[j].ok /\ calls[j].op \in SanitizerOps)
          => CallsOf("DeleteRole") = {}

C1_Witness ==
    /\ pc = "done"
    /\ request.action = DeleteRole
    /\ CallsOf("DetachRolePolicy") # {}
    /\ CallsOf("DeleteRolePolicy") # {}
    /\ \E i \in CallsOf("DeleteRole") : calls[i].ok

\* C2: in a DetachPolicies or DeleteRole invocation a failed call is the last
\* call of the invocation, which has then returned an error and no result; and
\* every policy a successful call of the invocation detached or deleted is
\* absent from the role from then on.
C2_FirstFailureEndsSanitizer ==
    IsSanitizer =>
        /\ \A i \in DOMAIN calls :
              ~calls[i].ok => /\ i = Len(calls)
                              /\ pc = "done"
                              /\ ret.err # ""
                              /\ ret.val = <<>>
        /\ \A i \in CallsOf("DetachRolePolicy") :
              calls[i].ok => calls[i].policy \notin attached[calls[i].role]
        /\ \A i \in CallsOf("DeleteRolePolicy") :
              calls[i].ok => calls[i].policy \notin inline[calls[i].role]

C2_Witness ==
    /\ pc = "done"
    /\ IsSanitizer
    /\ Len(calls) >= 3
    /\ calls[Len(calls)].op = "DetachRolePolicy"
    /\ ~calls[Len(calls)].ok
    /\ calls[Len(calls) - 1].op = "DetachRolePolicy"
    /\ calls[Len(calls) - 1].ok
    /\ calls[Len(calls)].policy \in attached[request.target_role_name]
    /\ ret.err # ""

\* C3: a DetachPolicies or DeleteRole invocation in which no call failed has
\* issued one detach call per managed policy and one delete-inline call per
\* inline policy the role had when the handler was called, and leaves the role
\* with no managed and no inline policy.
C3_DetachesEveryPolicy ==
    (pc = "done" /\ IsSanitizer /\ calls # <<>> /\ AllOk) =>
        LET role == request.target_role_name
        IN /\ Cardinality(CallsOf("DetachRolePolicy")) = Cardinality(before.attached[role])
           /\ Cardinality(CallsOf("DeleteRolePolicy")) = Cardinality(before.inline[role])
           /\ attached[role] = {}
           /\ inline[role] = {}

\* C4: in the bulk path no role is the target of two attach calls, the assumed
\* role is the target of none, and once create-policy and every list-roles page
\* have succeeded there has been one attach call for each of the other K-1
\* roles of the account.
C4_OneAttemptPerOtherRole ==
    IsBulk =>
        /\ \A i, j \in AttachCalls : calls[i].role = calls[j].role => i = j
        /\ \A i \in AttachCalls :
              calls[i].role # request.role_to_assume /\ calls[i].role \in before.roles
        /\ ListingComplete =>
              /\ Attempted = OtherRoles
              /\ Cardinality(AttachCalls) = Cardinality(before.roles) - 1

C4_Witness ==
    /\ IsBulk
    /\ ListingComplete
    /\ Cardinality(CallsOf("ListRoles")) >= 2
    /\ request.role_to_assume \in before.roles
    /\ \E i, j \in AttachCalls : i < j /\ ~calls[i].ok

\* C5: in the bulk path, when create-policy and every list-roles page have
\* succeeded, the handler returns success however many attach calls failed, and
\* after a failed attach every role the provider enumerates later, the assumed
\* one apart, is the target of a later attach call.
C5_FailedAttachIsolated ==
    (IsBulk /\ ListingComplete) =>
        /\ ret.err = ""
        /\ \A i \in AttachCalls :
              ~calls[i].ok =>
                 \A r \in OtherRoles :
                    RoleIndex(r) > RoleIndex(calls[i].role)
                       => \E j \in AttachCalls : j > i /\ calls[j].role = r

C5_Witness ==
    /\ IsBulk
    /\ pc = "done"
    /\ ret.err = ""
    /\ \E i, j \in AttachCalls :
          /\ ~calls[i].ok
          /\ \E l \in CallsOf("ListRoles") : i < l /\ l < j
    /\ \A i \in AttachCalls : ~calls[i].ok

\* The lines of the roles of a listing whose attach succeeded.
RECURSIVE ExpectedLines(_)
ExpectedLines(listing) ==
    IF listing = <<>> THEN <<>>
    ELSE LET r == Head(listing)
             attachedOk == /\ r # request.role_to_assume
                           /\ \E i \in AttachCalls : calls[i].role = r /\ calls[i].ok
         IN (IF attachedOk THEN <<Line("Policy attached to role", r)>> ELSE <<>>)
               \o ExpectedLines(Tail(listing))

\* C6: the success result of the bulk path is, in the order the provider
\* enumerated the roles, one line for each role whose attach call succeeded and
\* no other line.
C6_ResultListsSucceeded ==
    (IsBulk /\ pc = "done" /\ ret.err = "") =>
        ret.val = ExpectedLines(RoleList(before.roles))

C6_Witness ==
    /\ IsBulk
    /\ pc = "done"
    /\ ret.err = ""
    /\ Len(ret.val) = 2
    /\ Cardinality(CallsOf("ListRoles")) = 2

\* C7: in the bulk path no list-roles page is requested after a page the
\* provider marked last nor after a failed one; whenever the handler is about
\* to request a page or has returned, every role delivered so far other than
\* the assumed one has been the target of an attach call; and a handler that
\* returned with every page succeeded has received the page marked last and,
\* with it, every role of the account.
C7_PagesUntilLast ==
    IsBulk =>
        /\ \A i, j \in CallsOf("ListRoles") : i < j => calls[i].ok /\ calls[i].truncated
        /\ pc \in {"ListRolesPages", "done"} =>
              \A k \in 1..marker :
                 RoleList(before.roles)[k] # request.role_to_assume
                    => RoleList(before.roles)[k] \in Attempted
        /\ ListingComplete =>
              /\ \E i \in CallsOf("ListRoles") : ~calls[i].truncated
              /\ marker = Cardinality(before.roles)
              /\ OtherRoles \subseteq Attempted

C7_Witness ==
    /\ IsBulk
    /\ ListingComplete
    /\ Cardinality(CallsOf("ListRoles")) = MaxPages
    /\ calls[Len(calls)].op = "AttachRolePolicy"
    /\ calls[Len(calls) - 1].op = "ListRoles"

\* C8: in RevokeSessions a failed create-policy or list-roles call is the last
\* call of the invocation, which has then returned an error and no result; a
\* failed create-policy is the only call of its invocation.
C8_CreateOrListFailure ==
    IsRevoke =>
        /\ \A i \in CallsOf("CreatePolicy") \cup CallsOf("ListRoles") :
              ~calls[i].ok => /\ i = Len(calls)
                              /\ pc = "done"
                              /\ ret.err # ""
                              /\ ret.val = <<>>
        /\ \A i \in CallsOf("CreatePolicy") : ~calls[i].ok => Len(calls) = 1

C8_Witness ==
    /\ IsBulk
    /\ pc = "done"
    /\ calls # <<>>
    /\ calls[Len(calls)].op = "ListRoles"
    /\ ~calls[Len(calls)].ok
    /\ \E i \in AttachCalls : calls[i].ok
    /\ ret.err # ""

\* C9: a RevokeSessions invocation for a named role in which no call failed has
\* issued two calls: a create-policy call, then an attach call for the named
\* role with the ARN of the policy that call created; the policy is attached to
\* that role and the attachments of every other role are as they were.
C9_SingleTargetCalls ==
    (IsRevoke /\ request.target_role_name # ALL /\ pc = "done" /\ AllOk) =>
        LET role == request.target_role_name
        IN /\ Len(calls) = 2
           /\ calls[1].op = "CreatePolicy"
           /\ calls[2].op = "AttachRolePolicy"
           /\ calls[2].role = role
           /\ calls[2].policy = calls[1].policy
           /\ calls[2].policy \in PolicyArns
           /\ calls[2].policy \notin before.attached[role]
           /\ attached[role] = before.attached[role] \cup {calls[1].policy}
           /\ \A r \in Roles \ {role} : attached[r] = before.attached[r]
           /\ ret.err = ""

C9_Witness ==
    /\ IsRevoke
    /\ request.target_role_name = RoleNames[2]
    /\ pc = "done"
    /\ AllOk
    /\ Len(calls) = 2

\* C10: the policy a RevokeSessions invocation created denies every session
\* issued before the instant the handler was called.
C10_CoversEarlierSessions ==
    \A p \in policies :
        (IsRevoke /\ calls # <<>> /\ calls[1].ok /\ calls[1].policy = PolicyArn(p.name)) =>
            \A issueTime \in 0..MaxTime : issueTime < calledAt => Denies(p, issueTime)

\* C11: the policy name a RevokeSessions invocation generates is the name of
\* no policy an earlier invocation created in the account, so that its
\* create-policy call cannot collide with one.
C11_DistinctPolicyNames ==
    (IsRevoke /\ pc = "CreatePolicy") =>
        \A p \in policies : p.name # policyName

IsApplySCP == request.action = ApplySCP /\ ValidationError(request) = ""
OrgPolicyIds == {p.id : p \in orgPolicies}

\* C12: an ApplySCP invocation that passed validation, loaded its
\* configuration and ended with no failed call issued two calls: an
\* Organizations create-policy that made a policy named HighlyRestrictiveSCP
\* whose content is the configured SCP document, then an attach-policy of the
\* id that call returned to target_account_id; it returned the success
\* message naming that account and that policy id.
C12_ApplySCPCreatesThenAttaches ==
    (IsApplySCP /\ pc = "done" /\ config.status = "loaded" /\ AllOk) =>
        /\ Len(calls) = 2
        /\ calls[1].op = "org.CreatePolicy"
        /\ calls[2].op = "org.AttachPolicy"
        /\ calls[2].role = request.target_account_id
        /\ calls[2].policy = calls[1].policy
        /\ \E p \in orgPolicies :
             /\ p.id = calls[1].policy
             /\ p.name = "HighlyRestrictiveSCP"
             /\ p.content = config.scpPolicy
        /\ <<calls[1].policy, request.target_account_id>> \in orgAttached
        /\ ret = Success(<<[msg |-> "SCP applied to account",
                            account |-> request.target_account_id,
                            policy |-> calls[1].policy]>>)

C12_Witness ==
    /\ IsApplySCP
    /\ pc = "done"
    /\ config = loadConfig("DenyAllButLogging")
    /\ Len(calls) = 2
    /\ AllOk
    /\ ret.err = ""

\* C13: in an ApplySCP invocation a failed call is the last call and the
\* handler returns an error: after a failed create-policy no attach-policy is
\* issued; after a failed attach-policy nothing follows (the only calls are
\* the create and that attach) and the created policy is still in the
\* organization, attached to no account.
C13_ApplySCPStopsAtFailure ==
    IsApplySCP =>
        /\ \A i \in DOMAIN calls :
             /\ calls[i].op \in {"org.CreatePolicy", "org.AttachPolicy"}
             /\ ~calls[i].ok => /\ i = Len(calls)
                                /\ pc = "done"
                                /\ ret.err # ""
        /\ (calls # <<>> /\ ~calls[1].ok) =>
             /\ Len(calls) = 1
             /\ ret = Failure("error creating SCP")
        /\ (Len(calls) >= 2 /\ ~calls[2].ok) =>
             /\ Len(calls) = 2
             /\ calls[1].op = "org.CreatePolicy" /\ calls[1].ok
             /\ calls[2].op = "org.AttachPolicy"
             /\ ret = Failure("error attaching SCP to account")
             /\ calls[1].policy \in OrgPolicyIds
             /\ \A a \in orgAttached : a[1] # calls[1].policy

C13_Witness ==
    /\ IsApplySCP
    /\ pc = "done"
    /\ Len(calls) = 2
    /\ calls[1].ok
    /\ ~calls[2].ok
    /\ calls[1].policy \in OrgPolicyIds

AccountUntouched ==
    /\ roles = before.roles
    /\ attached = before.attached
    /\ inline = before.inline

\* C14: whatever the action, a request with an empty target_account_id or an
\* empty role_to_assume is answered with an error at once: no remote call is
\* made, the configuration is not loaded and the account is as it was.
C14_AccountAndRoleRequired ==
    (pc # "idle" /\ (request.target_account_id = "" \/ request.role_to_assume = "")) =>
        /\ pc = "done"
        /\ ret = Failure("targetAccountID and roleToAssume are required")
        /\ calls = <<>>
        /\ config = NoConfig
        /\ AccountUntouched

C14_Witness ==
    /\ pc = "done"
    /\ request.action = DeleteRole
    /\ request.target_account_id # ""
    /\ request.role_to_assume = ""
    /\ request.target_role_name = RoleNames[2]
    /\ ret.err # ""

RequiredFieldsSet == request.target_account_id # "" /\ request.role_to_assume # ""

\* C15: a detach_policies, delete_role or revoke_sessions request with an
\* empty target_role_name is answered with a validation error at once and no
\* remote call is made: nothing is listed, detached, deleted or created.
C15_TargetRoleRequired ==
    (/\ pc # "idle"
     /\ request.action \in {DetachPolicies, DeleteRole, RevokeSessions}
     /\ request.target_role_name = "") =>
        /\ pc = "done"
        /\ ret = Failure(IF RequiredFieldsSet
                         THEN "targetRoleName is required for this action"
                         ELSE "targetAccountID and roleToAssume are required")
        /\ calls = <<>>
        /\ AccountUntouched

C15_Witness ==
    /\ pc = "done"
    /\ request.action = RevokeSessions
    /\ RequiredFieldsSet
    /\ request.target_role_name = ""
    /\ ret = Failure("targetRoleName is required for this action")

\* C16: an apply_scp request with target_account_id and role_to_assume set
\* and an empty org_management_account is answered with a validation error
\* at once: no remote call is made and the configuration is not loaded.
C16_ManagementAccountRequired ==
    (/\ pc # "idle"
     /\ request.action = ApplySCP
     /\ RequiredFieldsSet
     /\ request.org_management_account = "") =>
        /\ pc = "done"
        /\ ret = Failure("managementAccount is required for apply_scp action")
        /\ calls = <<>>
        /\ config = NoConfig

C16_Witness ==
    /\ pc = "done"
    /\ request.action = ApplySCP
    /\ RequiredFieldsSet
    /\ request.org_management_account = ""
    /\ ret.err # ""
    /\ calls = <<>>

\* C17: a request whose action is none of the four kinds (the empty string
\* included) is answered with an error at once and no remote call is made,
\* whatever its other fields hold.
C17_UnknownActionRejected ==
    (/\ pc # "idle"
     /\ request.action \notin {ApplySCP, DetachPolicies, DeleteRole, RevokeSessions}) =>
        /\ pc = "done"
        /\ ret = Failure(IF RequiredFieldsSet
                         THEN "invalid action"
                         ELSE "targetAccountID and roleToAssume are required")
        /\ calls = <<>>
        /\ config = NoConfig
        /\ AccountUntouched

C17_Witness ==
    /\ pc = "done"
    /\ request.action = ""
    /\ RequiredFieldsSet
    /\ request.target_role_name = RoleNames[2]
    /\ request.org_management_account = ManagementAccount
    /\ ret = Failure("invalid action")

\* C18: a DetachPolicies invocation that repeats the request of the invocation
\* before it, which succeeded, and in which no call fails, reads the role's
\* managed and inline policies again, issues no detach and no delete-inline
\* call and returns success.
C18_SecondDetachFindsNothing ==
    (/\ pc = "done"
     /\ request.action = DetachPolicies
     /\ before.repeated
     /\ AllOk) =>
        /\ ret.err = ""
        /\ CallsOf("ListAttachedRolePolicies") # {}
        /\ CallsOf("ListRolePolicies") # {}
        /\ CallsOf("DetachRolePolicy") = {}
        /\ CallsOf("DeleteRolePolicy") = {}

\* C19: a DetachPolicies invocation issues no delete-role call, whether it
\* succeeds or fails: every role that existed when the handler was called
\* still exists, and nothing but managed attachments and inline policies of
\* the target role has been removed.
C19_DetachKeepsRole ==
    request.action = DetachPolicies =>
        /\ CallsOf("DeleteRole") = {}
        /\ pc # "DeleteRole"
        /\ roles = before.roles
        /\ \A r \in roles :
             /\ attached[r] \subseteq before.attached[r]
             /\ inline[r] \subseteq before.inline[r]
             /\ r # request.target_role_name =>
                  attached[r] = before.attached[r] /\ inline[r] = before.inline[r]

C19_Witness ==
    /\ pc = "done"
    /\ request.action = DetachPolicies
    /\ ret.err = ""
    /\ CallsOf("DetachRolePolicy") # {}
    /\ CallsOf("DeleteRolePolicy") # {}
    /\ request.target_role_name \in roles
    /\ attached[request.target_role_name] = {}
    /\ inline[request.target_role_name] = {}

\* C20: every remote call of an invocation is made with the credentials of
\* role_to_assume in one account, the one its action prescribes: the
\* organization management account for ApplySCP, and not the target account;
\* the target account for DetachPolicies, DeleteRole and RevokeSessions.
C20_OneAccountPerInvocation ==
    /\ \A i \in DOMAIN calls :
         /\ calls[i].creds.role = request.role_to_assume
         /\ request.action = ApplySCP =>
              /\ calls[i].creds.account = request.org_management_account
              /\ calls[i].creds.account # request.target_account_id
         /\ request.action \in {DetachPolicies, DeleteRole, RevokeSessions} =>
              calls[i].creds.account = request.target_account_id
    /\ \A i, j \in DOMAIN calls : calls[i].creds = calls[j].creds

C20_Witness ==
    /\ pc = "done"
    /\ request.action = ApplySCP
    /\ Len(calls) = 2
    /\ calls[1].creds = RoleArn(ManagementAccount, RoleNames[1])
    /\ calls[2].creds = RoleArn(ManagementAccount, RoleNames[1])
    /\ calls[2].role = TargetAccount

\* C21: in an ApplySCP, DetachPolicies, DeleteRole or single-target
\* RevokeSessions invocation a failed remote call (credentials that cannot be
\* obtained fail the first call) makes the handler return an error and no
\* success message: a success message is returned only if every call of the
\* invocation succeeded.
C21_SuccessOnlyIfAllCallsSucceeded ==
    (/\ request.action \in {ApplySCP, DetachPolicies, DeleteRole, RevokeSessions}
     /\ ~IsBulk) =>
        /\ (\E i \in DOMAIN calls : ~calls[i].ok) =>
             /\ pc = "done"
             /\ ret.err # ""
             /\ ret.val = <<>>
        /\ (pc = "done" /\ ret.err = "") => (calls # <<>> /\ AllOk)

C21_Witness ==
    /\ pc = "done"
    /\ IsRevoke
    /\ request.target_role_name = RoleNames[2]
    /\ Len(calls) = 2
    /\ calls[1].ok
    /\ ~calls[2].ok
    /\ ret = Failure("error attaching new policy to role")

(***************************************************************************)
(* The command-line client: its flags, its validation of them, and the     *)
(* request it sends.                                                       *)
(***************************************************************************)
\* The flags from which the client builds a request (LambdaRequest), one
\* flag per field; -lambda names the function and is given.
ClientFlags(req) ==
    [action |-> req.action, lambda |-> "LambdaArn",
     target_account |-> req.target_account_id,
     role_to_assume |-> req.role_to_assume,
     target_role |-> req.target_role_name,
     org_management_account |-> req.org_management_account]

\* // Validate flags: the message the client exits with, "" if it goes on.
ClientValidationError(flags) ==
    IF \/ flags.action = "" \/ flags.lambda = ""
       \/ flags.target_account = "" \/ flags.role_to_assume = ""
    THEN "Required flags not provided"
    ELSE IF flags.action = ApplySCP /\ flags.org_management_account = ""
    THEN "For 'apply_scp' action, 'org_management_account' flag is also required"
    ELSE IF (flags.action = DeleteRole \/ flags.action = DetachPolicies)
            /\ flags.target_role = ""
    THEN "For 'delete_role' and 'detach_policies' actions, the 'target_role' flag is required"
    ELSE ""

\* C22: the client rejects the flags of a request that names an action exactly
\* when the router rejects that request for a missing required field (the
\* account or role to assume for any action, the management account for
\* apply_scp, the target role for detach_policies, delete_role and
\* revoke_sessions).
C22_ClientValidatesAsRouter ==
    (pc # "idle" /\ request.action # "") =>
        (ClientValidationError(ClientFlags(request)) # ""
            <=> ValidationError(request) # "")

\* C23: in a DetachPolicies or DeleteRole invocation the list-attached call
\* comes before every detach call, and every detach call comes before the
\* list-inline call and every delete-inline call; once the inline policies
\* are listed every listed managed policy has been detached.
C23_ManagedBeforeInline ==
    IsSanitizer =>
        /\ \A i \in CallsOf("DetachRolePolicy") :
             /\ \E j \in CallsOf("ListAttachedRolePolicies") : j < i
             /\ \A j \in CallsOf("ListAttachedRolePolicies") : j < i
             /\ \A j \in CallsOf("ListRolePolicies") \cup CallsOf("DeleteRolePolicy") : i < j
        /\ \A j \in CallsOf("DeleteRolePolicy") :
             \E i \in CallsOf("ListRolePolicies") : i < j
        /\ CallsOf("ListRolePolicies") # {} =>
             \A p \in Range(listPoliciesOutput) :
                \E i \in CallsOf("DetachRolePolicy") :
                   calls[i].policy = p /\ calls[i].ok

C23_Witness ==
    /\ pc = "done"
    /\ IsSanitizer
    /\ Len(listPoliciesOutput) = 2
    /\ Cardinality(CallsOf("DetachRolePolicy")) = 2
    /\ CallsOf("DeleteRolePolicy") # {}

\* C24: a RevokeSessions invocation, single-target or bulk, issues create-policy,
\* list-roles and attach calls only: no role is deleted, every role keeps
\* every managed and inline policy it had when the handler was called, and
\* the only policy added to a role is the deny policy of the invocation.
C24_RevokeOnlyAdds ==
    (pc # "idle" /\ request.action = RevokeSessions) =>
        /\ \A i \in DOMAIN calls :
             calls[i].op \in {"CreatePolicy", "ListRoles", "AttachRolePolicy"}
        /\ roles = before.roles
        /\ \A r \in roles :
             /\ before.attached[r] \subseteq attached[r]
             /\ attached[r] \ before.attached[r] \subseteq {PolicyArn(policyName)}
             /\ inline[r] = before.inline[r]

C24_Witness ==
    /\ pc = "done"
    /\ IsBulk
    /\ ret.err = ""
    /\ \E r \in roles :
         /\ before.attached[r] # {}
         /\ before.attached[r] # attached[r]
         /\ before.attached[r] \subseteq attached[r]

SanitizerCallsOk ==
    \A i \in DOMAIN calls : calls[i].op # "DeleteRole" => calls[i].ok

C26_SingleTargetNoSelfExclusion ==
    /\ (/\ IsRevoke
        /\ request.target_role_name = request.role_to_assume
        /\ pc = "done"
        /\ AllOk) =>
           /\ Len(calls) = 2
           /\ calls[2].op = "AttachRolePolicy"
           /\ calls[2].role = request.role_to_assume
           /\ calls[2].policy = calls[1].policy
           /\ calls[1].policy \in attached[request.role_to_assume]
           /\ ret = Success(<<Line("New token recovation policy attached to role",
                                   request.role_to_assume)>>)
    /\ IsBulk => \A i \in AttachCalls : calls[i].role # request.role_to_assume

C26_Witness ==
    /\ pc = "done"
    /\ IsRevoke
    /\ request.target_role_name = request.role_to_assume
    /\ ret.err = ""
    /\ PolicyArn(policyName) \in attached[request.role_to_assume]

\* C27: when, in the ALL path, a list-roles page after the first fails, the
\* handler returns the error and no result string: the lines written for the
\* roles of the earlier pages are not returned, although the deny policy is
\* still attached to each role whose attach succeeded.
C27_LaterPageFailureDropsLines ==
    (/\ IsBulk
     /\ pc = "done"
     /\ \E i, j \in CallsOf("ListRoles") : j < i /\ ~calls[i].ok) =>
        /\ ret = Failure("error attaching policy to roles")
        /\ \A a \in AttachCalls : calls[a].ok =>
             /\ calls[a].policy \in attached[calls[a].role]
             /\ Line("Policy attached to role", calls[a].role) \in Range(result)
             /\ Line("Policy attached to role", calls[a].role) \notin Range(ret.val)

C27_Witness ==
    /\ IsBulk
    /\ pc = "done"
    /\ \E i, j \in CallsOf("ListRoles") : j < i /\ ~calls[i].ok
    /\ \E a \in AttachCalls : calls[a].ok /\ calls[a].policy \in attached[calls[a].role]
    /\ result # <<>>
    /\ ret.val = <<>>

\* C28: an ApplySCP invocation looks no policy up: its first call is a
\* create-policy under the name HighlyRestrictiveSCP.  When the organization
\* held a policy of that name at the call of the handler, left by an earlier
\* invocation for this or for another account, the create-policy call fails,
\* it is the only call, and the organization's policies and attachments are
\* as they were.
C28_SecondApplySCPFails ==
    (IsApplySCP /\ config.status = "loaded") =>
        /\ calls # <<>> => calls[1].op = "org.CreatePolicy"
        /\ \A i \in DOMAIN calls : calls[i].op \in {"org.CreatePolicy", "org.AttachPolicy"}
        /\ \A p \in orgPolicies : p.name = "HighlyRestrictiveSCP"
        /\ (pc = "done" /\ before.orgPolicies # {}) =>
             /\ Len(calls) = 1
             /\ ~calls[1].ok
             /\ ret = Failure("error creating SCP")
             /\ orgPolicies = before.orgPolicies
             /\ orgAttached = before.orgAttached

C28_Witness ==
    /\ IsApplySCP
    /\ pc = "done"
    /\ request.target_account_id = OtherAccount
    /\ before.orgAttached = {<<ScpId(1), TargetAccount>>}
    /\ Len(calls) = 1
    /\ ret = Failure("error creating SCP")

IsSingleRevoke == IsRevoke /\ request.target_role_name # ALL
AttachedTo(policy) == {r \in roles : policy \in attached[r]}

\* C29 as stated: every valid RevokeSessions invocation calls create-policy
\* first; a successful single-target invocation adds to the role one deny
\* policy that no role had and no earlier invocation created; and an
\* invocation whose attach step or list-roles step fails leaves the policy it
\* created in the account, attached to no role.
C29_RevokeNotIdempotent ==
    IsRevoke =>
        /\ calls # <<>> => calls[1].op = "CreatePolicy"
        /\ (IsSingleRevoke /\ pc = "done" /\ ret.err = "") =>
             LET role == request.target_role_name
                 new == attached[role] \ before.attached[role]
             IN /\ new = {createPolicyOutput}
                /\ createPolicyOutput \notin {PolicyArn(p.name) : p \in before.policies}
                /\ createPolicyOutput \in PolicyArns
        /\ (/\ pc = "done"
            /\ Len(calls) >= 2
            /\ calls[1].ok
            /\ \E i \in DOMAIN calls :
                 /\ ~calls[i].ok
                 /\ \/ calls[i].op = "ListRoles"
                    \/ IsSingleRevoke /\ calls[i].op = "AttachRolePolicy") =>
             /\ createPolicyOutput \in PolicyArns
             /\ createPolicyOutput \notin {PolicyArn(p.name) : p \in before.policies}
             /\ AttachedTo(createPolicyOutput) = {}

\* C29, amended: every valid RevokeSessions invocation calls create-policy
\* first; a successful single-target invocation adds to the role one deny
\* policy that no role had and no earlier invocation created; and an
\* invocation whose attach step or list-roles step fails leaves the policy it
\* created in the account, attached to the roles of its successful attach
\* calls only: to no role when the single-target attach or the first
\* list-roles page failed, to roles of earlier pages when a later page failed.
C29_RevokeLeavesPolicyBehind ==
    IsRevoke =>
        /\ calls # <<>> => calls[1].op = "CreatePolicy"
        /\ (IsSingleRevoke /\ pc = "done" /\ ret.err = "") =>
             LET role == request.target_role_name
                 new == attached[role] \ before.attached[role]
             IN /\ new = {createPolicyOutput}
                /\ createPolicyOutput \notin {PolicyArn(p.name) : p \in before.policies}
                /\ createPolicyOutput \in PolicyArns
        /\ (/\ pc = "done"
            /\ Len(calls) >= 2
            /\ calls[1].ok
            /\ \E i \in DOMAIN calls :
                 /\ ~calls[i].ok
                 /\ \/ calls[i].op = "ListRoles"
                    \/ IsSingleRevoke /\ calls[i].op = "AttachRolePolicy") =>
             /\ createPolicyOutput \in PolicyArns
             /\ createPolicyOutput \notin {PolicyArn(p.name) : p \in before.policies}
             /\ AttachedTo(createPolicyOutput) =
                   {calls[a].role : a \in {b \in AttachCalls : calls[b].ok}}
             /\ (IsSingleRevoke \/ ~calls[2].ok) => AttachedTo(createPolicyOutput) = {}

C29_Witness ==
    /\ IsSingleRevoke
    /\ pc = "done"
    /\ ret.err = ""
    /\ before.policies # {}
    /\ Cardinality({p \in attached[request.target_role_name] :
                      p.kind = "TokenInvalidationPolicy"}) = 2

(***************************************************************************)
(* Two invocations of DetachPolicies on one role at the same time.  Each   *)
(* runs HandleRequest and manageRole on locals of its own (pc, the two     *)
(* list outputs, idx, calls and ret are functions of the invocation) and   *)
(* both act on the one account.  The provider lists in its stable order,   *)
(* a first page or all, refuses to remove a policy that is no longer on    *)
(* the role, and has no other fault.                                       *)
(***************************************************************************)
Procs == {1, 2}

ConcRequests ==
    {req \in Requests : /\ req.action = DetachPolicies
                        /\ ValidationError(req) = ""
                        /\ req.target_role_name \in Roles}

ConcInit ==
    /\ roles = Roles
    /\ attached = [r \in Roles |-> {ManagedArn(k) : k \in 1..InitialManaged(r)}]
    /\ inline = [r \in Roles |-> {InlineName(k) : k \in 1..InitialInline(r)}]
    /\ policies = {}
    /\ orgPolicies = {}
    /\ orgAttached = {}
    /\ now = 0
    /\ invocations = 0
    /\ before = [roles |-> roles, attached |-> attached, inline |-> inline,
                 policies |-> policies, orgPolicies |-> orgPolicies,
                 orgAttached |-> orgAttached, repeated |-> FALSE]
    /\ request \in ConcRequests
    /\ calledAt = 0
    /\ pc = [p \in Procs |-> "idle"]
    /\ config = NoConfig
    /\ calls = [p \in Procs |-> <<>>]
    /\ listPoliciesOutput = [p \in Procs |-> <<>>]
    /\ listInlinePoliciesOutput = [p \in Procs |-> <<>>]
    /\ idx = [p \in Procs |-> 0]
    /\ policyName = 0
    /\ createPolicyOutput = NoPolicy
    /\ page = <<>>
    /\ lastPage = FALSE
    /\ marker = 0
    /\ pageNo = 0
    /\ result = <<>>
    /\ ret = [p \in Procs |-> NoReturn]

ConcLog(p, op, role, policy, ok, truncated) ==
    calls' = [calls EXCEPT ![p] = Append(@, Call(op, manageRoleCreds, role, policy, ok, truncated))]

\* Invocation p goes to step next, or returns.
ConcGoto(p, next, failure) ==
    CASE next = "fail" ->
           /\ pc' = [pc EXCEPT ![p] = "done"]
           /\ ret' = [ret EXCEPT ![p] = Failure(failure)]
      [] next = "return" ->
           /\ pc' = [pc EXCEPT ![p] = "done"]
           /\ ret' = [ret EXCEPT ![p] = manageRoleReturn(request.action)]
      [] OTHER ->
           /\ pc' = [pc EXCEPT ![p] = next]
           /\ ret' = ret

ConcHandleRequest(p) ==
    /\ pc[p] = "idle"
    /\ invocations' = invocations + 1
    /\ IF ValidationError(request) # ""
       THEN ConcGoto(p, "fail", ValidationError(request))
       ELSE ConcGoto(p, Dispatch(request), "invalid action")
    /\ UNCHANGED <<world, now, before, request, calledAt, config, calls, locals>>

ConcListAttachedRolePolicies(p) ==
    /\ pc[p] = "ListAttachedRolePolicies"
    /\ LET role == request.target_role_name
           full == PolicyList(attached[role])
       IN \E k \in 0..Len(full) :
            LET out == SubSeq(full, 1, k)
                next == ErrCheck(TRUE, DetachLoop(1, Len(out)))
            IN /\ (k = 0 => full = <<>>)
               /\ ConcLog(p, "ListAttachedRolePolicies", role, NoPolicy, TRUE, k < Len(full))
               /\ listPoliciesOutput' = [listPoliciesOutput EXCEPT ![p] = out]
               /\ idx' = [idx EXCEPT ![p] = 1]
               /\ ConcGoto(p, next, "error listing attached policies")
    /\ UNCHANGED <<world, now, invocations, before, request, calledAt, config,
                   listInlinePoliciesOutput, policyName, createPolicyOutput, page,
                   lastPage, marker, pageNo, result>>

ConcDetachRolePolicy(p) ==
    /\ pc[p] = "DetachRolePolicy"
    /\ LET role == request.target_role_name
           policy == listPoliciesOutput[p][idx[p]]
           ok == policy \in attached[role]
           next == ErrCheck(ok, DetachLoop(idx[p] + 1, Len(listPoliciesOutput[p])))
       IN /\ ConcLog(p, "DetachRolePolicy", role, policy, ok, FALSE)
          /\ attached' = IF ok THEN [attached EXCEPT ![role] = @ \ {policy}] ELSE attached
          /\ idx' = IF ok THEN [idx EXCEPT ![p] = @ + 1] ELSE idx
          /\ ConcGoto(p, next, "error detaching policy")
    /\ UNCHANGED <<roles, inline, policies, orgPolicies, orgAttached, now, invocations, before,
                   request, calledAt, config, listPoliciesOutput, listInlinePoliciesOutput,
                   policyName, createPolicyOutput, page, lastPage, marker, pageNo, result>>

ConcListRolePolicies(p) ==
    /\ pc[p] = "ListRolePolicies"
    /\ LET role == request.target_role_name
           full == PolicyList(inline[role])
       IN \E k \in 0..Len(full) :
            LET out == SubSeq(full, 1, k)
                next == ErrCheck(TRUE, IF Len(out) = 0 THEN AfterDeleteLoop(request.action)
                                                     ELSE "DeleteRolePolicy")
            IN /\ (k = 0 => full = <<>>)
               /\ ConcLog(p, "ListRolePolicies", role, NoPolicy, TRUE, k < Len(full))
               /\ listInlinePoliciesOutput' = [listInlinePoliciesOutput EXCEPT ![p] = out]
               /\ idx' = [idx EXCEPT ![p] = 1]
               /\ ConcGoto(p, next, "error listing inline policies")
    /\ UNCHANGED <<world, now, invocations, before, request, calledAt, config,
                   listPoliciesOutput, policyName, createPolicyOutput, page,
                   lastPage, marker, pageNo, result>>

ConcDeleteRolePolicy(p) ==
    /\ pc[p] = "DeleteRolePolicy"
    /\ LET role == request.target_role_name
           policy == listInlinePoliciesOutput[p][idx[p]]
           ok == policy \in inline[role]
           next == ErrCheck(ok, IF idx[p] = Len(listInlinePoliciesOutput[p])
                                THEN AfterDeleteLoop(request.action)
                                ELSE "DeleteRolePolicy")
       IN /\ ConcLog(p, "DeleteRolePolicy", role, policy, ok, FALSE)
          /\ inline' = IF ok THEN [inline EXCEPT ![role] = @ \ {policy}] ELSE inline
          /\ idx' = IF ok THEN [idx EXCEPT ![p] = @ + 1] ELSE idx
          /\ ConcGoto(p, next, "error deleting inline policy")
    /\ UNCHANGED <<roles, attached, policies, orgPolicies, orgAttached, now, invocations, before,
                   request, calledAt, config, listPoliciesOutput, listInlinePoliciesOutput,
                   policyName, createPolicyOutput, page, lastPage, marker, pageNo, result>>

ConcNext ==
    \E p \in Procs :
       \/ ConcHandleRequest(p)
       \/ ConcListAttachedRolePolicies(p)
       \/ ConcDetachRolePolicy(p)
       \/ ConcListRolePolicies(p)
       \/ ConcDeleteRolePolicy(p)

SpecConcurrent == ConcInit /\ [][ConcNext]_vars

ConcDone == \A p \in Procs : pc[p] = "done"

\* The last call of invocation p failed to remove a policy that p had listed
\* and that the other invocation had removed with a call of its own.
ConcLostRace(p) ==
    /\ calls[p] # <<>>
    /\ LET last == calls[p][Len(calls[p])]
       IN /\ ~last.ok
          /\ last.op \in {"DetachRolePolicy", "DeleteRolePolicy"}
          /\ last.policy \in Range(listPoliciesOutput[p]) \cup Range(listInlinePoliciesOutput[p])
          /\ \E q \in Procs \ {p} : \E j \in DOMAIN calls[q] :
               /\ calls[q][j].op = last.op
               /\ calls[q][j].policy = last.policy
               /\ calls[q][j].ok

\* C30: when the two invocations have returned, at least one has returned
\* success, the role has no managed and no inline policy left, and an
\* invocation that returned an error lost a race for a policy it had listed.
C30_ConcurrentDetach ==
    ConcDone =>
        /\ \E p \in Procs : ret[p].err = ""
        /\ attached[request.target_role_name] = {}
        /\ inline[request.target_role_name] = {}
        /\ \A p \in Procs : ret[p].err # "" => ConcLostRace(p)

(***************************************************************************)
(* Termination of an invocation.                                           *)
(***************************************************************************)
Running == pc \notin {"idle", "done"}

\* What is left of an invocation, ordered lexicographically: the phase of the
\* handler, the roles the paginator has not delivered yet, whether the callback
\* is inside a page, and the entries left of the list a loop ranges over.
Variant ==
    CASE pc = "org.CreatePolicy" -> <<2, 0, 0, 0>>
      [] pc = "org.AttachPolicy" -> <<1, 0, 0, 0>>
      [] pc = "ListAttachedRolePolicies" -> <<5, 0, 0, 0>>
      [] pc = "DetachRolePolicy" -> <<4, 0, 0, Len(listPoliciesOutput) - idx>>
      [] pc = "ListRolePolicies" -> <<3, 0, 0, 0>>
      [] pc = "DeleteRolePolicy" -> <<2, 0, 0, Len(listInlinePoliciesOutput) - idx>>
      [] pc = "DeleteRole" -> <<1, 0, 0, 0>>
      [] pc = "revokeSession" -> <<5, 0, 0, 0>>
      [] pc = "CreatePolicy" -> <<4, 0, 0, 0>>
      [] pc = "ListRolesPages" -> <<3, Cardinality(roles) - marker, 0, 0>>
      [] pc = "AttachRolePolicyAll" -> <<3, Cardinality(roles) - marker, 1, Len(page) - idx>>
      [] pc = "AttachRolePolicy" -> <<1, 0, 0, 0>>
      [] pc \in {"idle", "done"} -> <<0, 0, 0, 0>>
      [] OTHER -> <<6, 0, 0, 0>>

Less(u, v) ==
    \E k \in 1..4 : /\ u[k] < v[k]
                     /\ \A j \in 1..(k - 1) : u[j] = v[j]

\* The handler is at a remote call of the code, inside the list it ranges over.
HasStep ==
    /\ pc \in {"org.CreatePolicy", "org.AttachPolicy", "ListAttachedRolePolicies",
               "DetachRolePolicy", "ListRolePolicies", "DeleteRolePolicy", "DeleteRole",
               "revokeSession", "CreatePolicy", "ListRolesPages", "AttachRolePolicyAll",
               "AttachRolePolicy"}
    /\ pc = "DetachRolePolicy" => idx \in 1..Len(listPoliciesOutput)
    /\ pc = "DeleteRolePolicy" => idx \in 1..Len(listInlinePoliciesOutput)
    /\ pc = "AttachRolePolicyAll" => idx \in 1..Len(page)

\* Where the handler is at a remote call, the call comes back and the handler
\* takes its step.
HasStepEnabled == HasStep => ENABLED Step

\* With the handler's steps taken to the end (FairSpec), every invocation returns.
InvocationReturns == Running ~> pc = "done"

\* C31: every invocation of HandleRequest returns, whatever the policies, roles
\* and pages and whichever calls fail: while it runs the handler is at a remote
\* call, every step leaves less to do (each loop advances over its
\* list, the page loop over the roles still to deliver), and the clock leaves
\* it where it is.  It returns one outcome: nothing is returned while it runs,
\* what it returns is an error with no string or a string with no error, and
\* the outcome stays as returned until the next invocation.
C31_InvocationTerminates ==
    /\ [](Running => HasStep)
    /\ [](\A k \in 1..4 : Variant[k] \in Nat)
    /\ [][Running => IF now' = now THEN Less(Variant', Variant)
                                   ELSE Variant' = Variant]_vars
    /\ [](Running => ret = NoReturn)
    /\ [](pc = "done" => (ret.err # "" => ret.val = <<>>))
    /\ [][(pc = "done" /\ invocations' = invocations) => ret' = ret]_vars

\* A bulk revocation that has returned after the provider's last page, the
\* page loop having run MaxPages times with a failed attach on the way.
C31_Witness ==
    /\ pc = "done"
    /\ IsBulk
    /\ pageNo = MaxPages
    /\ lastPage
    /\ \E i \in AttachCalls : ~calls[i].ok
    /\ ret.err = ""

============================================================================
